---------------------------- MODULE Spec2Model ----------------------------
(***************************************************************************)
(* Model of src/ai_conv_api.py: the session store `conversations`, the     *)
(* three backend adapters, the background turn scheduler ai_conversation,  *)
(* its export to <convo_id>.txt, and the two request handlers               *)
(* start_conversation and get_convo_log.                                   *)
(*                                                                         *)
(* Strings are sequences of atoms (an atom is an indivisible fragment of   *)
(* text); "" is << >>, concatenation is \o.                                *)
(***************************************************************************)
EXTENDS Integers, Sequences, FiniteSets, TLC

\* ------------------------------------------------------------ bounds
\* number of environment events in one behaviour: requests
\* (start-convo, convo-log) and failures (provider, stdout, file system)
MaxEvents == 3
\* the same number in the behaviours checked for progress
MaxLiveEvents == 2

\* ------------------------------------------------------------ program constants
\* model_cycle = ["Gpt41", "Gemini", "DeepSeek"] * 3
CycleRepetitions == 3
\* retry_count < 1
GeminiMaxRetries == 1
\* time.sleep(10)
GeminiRetryDelay == 10
InterTurnDelay_retry == GeminiRetryDelay

\* time.sleep(8)
InterTurnDelay == 8

IdOrder == << "id1", "id2" >>
Ids == { IdOrder[n] : n \in 1..Len(IdOrder) }
\* the topics of the start-convo requests, in the order of the requests
RequestTopics == << <<"X">>, <<"Y">> >>
\* Python's None, and a value that is present
None == [some |-> FALSE]
Some(v) == [some |-> TRUE, val |-> v]

\* ------------------------------------------------------------ strings
Whitespace == { " ", "\n" }

RECURSIVE LStrip(_)
LStrip(s) ==
    IF s # << >> /\ Head(s) \in Whitespace THEN LStrip(Tail(s)) ELSE s

RECURSIVE RStrip(_)
RStrip(s) ==
    IF s # << >> /\ s[Len(s)] \in Whitespace
    THEN RStrip(SubSeq(s, 1, Len(s) - 1))
    ELSE s

\* str.strip()
Strip(s) == RStrip(LStrip(s))

\* str.upper() on the sender names
Upper(s) ==
    CASE s = "Gpt41"    -> "GPT41"
      [] s = "Gemini"   -> "GEMINI"
      [] s = "DeepSeek" -> "DEEPSEEK"
      [] OTHER          -> s

\* sep.join(parts)
RECURSIVE Join(_, _)
Join(parts, sep) ==
    IF parts = << >> THEN << >>
    ELSE IF Len(parts) = 1 THEN parts[1]
    ELSE parts[1] \o <<sep>> \o Join(Tail(parts), sep)

\* "429" in str(e)
Has429(e) == \E i \in 1..Len(e) : e[i] = "429"

IsPrefix(s, t) == Len(s) <= Len(t) /\ SubSeq(t, 1, Len(s)) = s

\* ------------------------------------------------------------ data model
\* Message(sender=..., content=...).dict()
Message(sender, content) == [sender |-> sender, content |-> content]

\* ConversationLog(convo_id=..., topic=..., messages=...)
ConversationLog(convo_id, topic, messages) ==
    [convo_id |-> convo_id, topic |-> topic, messages |-> messages]

model_cycle_4 ==
    [i \in 1..(3 * (CycleRepetitions + 1)) |->
        <<"Gpt41", "Gemini", "DeepSeek">>[((i - 1) % 3) + 1]]

model_cycle_rot ==
    [i \in 1..(3 * CycleRepetitions) |->
        <<"Gemini", "Gpt41", "DeepSeek">>[((i - 1) % 3) + 1]]

\* model_cycle = ["Gpt41", "Gemini", "DeepSeek"] * 3
model_cycle ==
    [i \in 1..(3 * CycleRepetitions) |->
        <<"Gpt41", "Gemini", "DeepSeek">>[((i - 1) % 3) + 1]]

\* ------------------------------------------------------------ providers
\* What one request to a provider can do: answer with a text (for the
\* streaming provider, with chunks), answer without content (None), or raise.
NormalTexts == { <<" ", "a", "\n">> }
EmptyTexts == { << >>, <<" ">> }
ErrorTexts == { <<"429", " quota">>, <<"timeout">> }
NoneStripError == <<"'NoneType' object has no attribute 'strip'">>

ChatNormal == { [kind |-> "ok", text |-> t] : t \in NormalTexts }
ChatAbnormal ==
    { [kind |-> "ok", text |-> t] : t \in EmptyTexts }
    \cup { [kind |-> "none"] }
    \cup { [kind |-> "err", msg |-> e] : e \in ErrorTexts }

StreamNormal ==
    { [kind |-> "ok", chunks |-> c] :
        c \in { << None, Some(<<" ">>), Some(<< >>), Some(<<"a">>), Some(<<"\n">>) >> } }
StreamAbnormal ==
    { [kind |-> "ok", chunks |-> c] : c \in { << >>, << Some(<<" ">>), None >> } }
    \cup { [kind |-> "err", msg |-> e] : e \in ErrorTexts }

\* for chunk in response_stream: if chunk.text: response_text += chunk.text
RECURSIVE Accumulate(_)
Accumulate(chunks) ==
    IF chunks = << >> THEN << >>
    ELSE (IF Head(chunks).some /\ Head(chunks).val # << >>
          THEN Head(chunks).val ELSE << >>) \o Accumulate(Tail(chunks))

\* ------------------------------------------------------------ state
VARIABLES
    conversations,  \* the dict `conversations`: id -> [topic, messages]
    issued,         \* the ids uuid4 has returned so far
    responses,      \* id -> what start_conversation returned for it
    task,           \* id -> the frame of that id's ai_conversation task
    files,          \* id -> the lines of <id>.txt, None when there is no file
    reader,         \* the frame of the get_convo_log request in progress
    lastRead,       \* id -> the result of the latest finished get_convo_log
    events          \* environment events so far

vars == <<conversations, issued, responses, task, files, reader, lastRead, events>>

Idle == [pc |-> "idle"]

Init ==
    /\ conversations = << >>
    /\ issued = {}
    /\ responses = << >>
    /\ task = << >>
    /\ files = [i \in Ids |-> None]
    /\ reader = Idle
    /\ lastRead = [i \in Ids |-> None]
    /\ events = 0

Budget == events < MaxEvents

Put_replace(d, k, v) == [i \in {k} |-> v]

\* d[k] = v on a dict
Put(d, k, v) == [i \in (DOMAIN d) \cup {k} |-> IF i = k THEN v ELSE d[i]]

\* The frame of an ai_conversation task. Its locals: turn, last_response,
\* reply. Of the adapter call of the current iteration: prompt (the argument),
\* retry_count, provider (what the provider did at each attempt), waited (the
\* time slept before a retry), returned (the return value). Of the run:
\* fault (the exception the loop's except branch caught), slept (the time
\* slept between turns), exports and export_failed (the runs of the export
\* block and whether its except branch was taken).
NewTask ==
    [pc |-> "queued", turn |-> 0, last_response |-> << >>, reply |-> << >>,
     prompt |-> << >>, retry_count |-> 0, provider |-> << >>, waited |-> 0,
     returned |-> << >>, fault |-> None, slept |-> 0, exports |-> 0,
     export_failed |-> FALSE]

\* the frame at the start of an iteration of the loop
NewCall(f) == [f EXCEPT !.pc = "call", !.returned = << >>, !.reply = << >>,
                        !.retry_count = 0, !.provider = << >>, !.waited = 0]

\* ------------------------------------------------------------ start_conversation
uuid4_any == Ids

\* uuid.uuid4(): an id it has not returned before. Ids are opaque tokens
\* that the program only compares, so which unused one is returned makes no
\* difference: the first in IdOrder is taken.
uuid4 ==
    IF \A n \in 1..Len(IdOrder) : IdOrder[n] \in issued THEN {}
    ELSE { IdOrder[CHOOSE n \in 1..Len(IdOrder) :
                /\ IdOrder[n] \notin issued
                /\ \A k \in 1..(n - 1) : IdOrder[k] \in issued] }

start_conversation(topic) ==
    /\ Budget
    /\ \E convo_id \in uuid4 :
        /\ issued' = issued \cup {convo_id}
        /\ conversations' = Put(conversations, convo_id, [topic |-> topic, messages |-> << >>])
        \* bg.add_task(ai_conversation, convo_id)
        /\ task' = Put(task, convo_id, NewTask)
        /\ responses' = Put(responses, convo_id, ConversationLog(convo_id, topic, << >>))
    /\ events' = events + 1
    /\ UNCHANGED <<files, reader, lastRead>>

\* ------------------------------------------------------------ adapters
\* How a call ends: it returns a value, or it raises
Return(v) == [kind |-> "return", val |-> v]
Raise(e) == [kind |-> "raise", exc |-> e]

\* the f-string of an adapter's except branch
ErrorReply(provider, e) == <<"Error generating ", provider, " response: ">> \o e

ChatCall_propagating(provider, r) ==
    CASE r.kind = "ok"   -> Return(Strip(r.text))
      [] r.kind = "none" -> Raise(NoneStripError)
      [] r.kind = "err"  -> Raise(r.msg)

\* try: return response.choices[0].message.content.strip()
\* except Exception as e: return f"Error generating ... response: {e}"
ChatCall(provider, r) ==
    CASE r.kind = "ok"   -> Return(Strip(r.text))
      [] r.kind = "none" -> Return(ErrorReply(provider, NoneStripError))
      [] r.kind = "err"  -> Return(ErrorReply(provider, r.msg))

call_openai(r) == ChatCall("OpenAI", r)

call_deepseek(r) == ChatCall("DeepSeek", r)

GeminiRetries_never(e, retry_count) == FALSE

GeminiRetries_always(e, retry_count) == Has429(e)

\* if "429" in str(e) and retry_count < 1
GeminiRetries(e, retry_count) == Has429(e) /\ retry_count < GeminiMaxRetries

\* the sleep before the recursive call
Retry == [kind |-> "retry"]

\* one pass through call_gemini's body: it returns, or it goes to sleep
\* before the recursive call
call_gemini(r, retry_count) ==
    IF r.kind = "ok" THEN Return(Strip(Accumulate(r.chunks)))
    ELSE IF GeminiRetries(r.msg, retry_count) THEN Retry
    ELSE Return(ErrorReply("Gemini", r.msg))

\* ------------------------------------------------------------ ai_conversation
\* lines 179-189: the lookup and the seed prompt
ai_conversation_begin(id) ==
    /\ id \in DOMAIN task
    /\ task[id].pc = "queued"
    /\ IF id \notin DOMAIN conversations
       THEN task' = [task EXCEPT ![id].pc = "done"]
       ELSE task' = [task EXCEPT ![id] =
                [NewCall(@) EXCEPT
                    !.last_response = <<"Let's discuss: ">> \o conversations[id].topic,
                    !.pc = IF Len(model_cycle) = 0 THEN "export" ELSE "call"]]
    /\ UNCHANGED <<conversations, issued, responses, files, reader, lastRead, events>>

Sender(id) == model_cycle[task[id].turn + 1]

Placeholder == <<"(No response)">>

Content_raw(reply) == reply

\* lines 202-204: if not reply: reply = "(No response)"
Content(reply) == IF reply = << >> THEN Placeholder ELSE reply

AppendMessage_front(id, m) ==
    conversations' = [conversations EXCEPT ![id].messages = <<m>> \o @]

AppendMessage_shared(id, m) ==
    conversations' = [i \in DOMAIN conversations |->
                        [conversations[i] EXCEPT !.messages = Append(@, m)]]

AppendMessage_replace(id, m) ==
    conversations' = [conversations EXCEPT ![id].messages = <<m>>]

\* convo_data['messages'].append(m); convo_data is conversations[id]
AppendMessage(id, m) ==
    conversations' = [conversations EXCEPT ![id].messages = Append(@, m)]

\* what can go wrong between the adapter's return and the append: both
\* prints of lines 215-218 raise
FaultTexts == { <<"'ascii' codec can't encode character">> }
Faults == { None } \cup { Some(e) : e \in FaultTexts }

\* the number of environment failures in a step
Cost(abnormal, fault) == (IF abnormal THEN 1 ELSE 0) + (IF fault.some THEN 1 ELSE 0)

Break_continue(f, e) == [f EXCEPT !.fault = Some(e), !.pc = "sleep"]

\* lines 225-228: the frame after the except branch's break
Break(f, e) == [f EXCEPT !.fault = Some(e), !.pc = "export"]

FinishTurn_stale(id, f, result, fault) ==
    IF result.kind = "raise"
    THEN /\ AppendMessage(id, Message(Sender(id), <<"Error during generation: ">> \o result.exc))
         /\ task' = [task EXCEPT ![id] = Break(f, result.exc)]
    ELSE LET reply == Content(result.val) IN
         IF fault.some
         THEN /\ AppendMessage(id, Message(Sender(id), <<"Error during generation: ">> \o fault.val))
              /\ task' = [task EXCEPT ![id] =
                    Break([f EXCEPT !.returned = result.val, !.reply = reply], fault.val)]
         ELSE /\ AppendMessage(id, Message(Sender(id), reply))
              /\ task' = [task EXCEPT ![id] =
                    [f EXCEPT !.returned = result.val, !.reply = reply, !.pc = "sleep"]]

\* The rest of the iteration once the adapter call has ended in `result`:
\* lines 202-223 commit the reply; an exception, the adapter's or one raised
\* after its return (fault), is handled by lines 225-228
FinishTurn(id, f, result, fault) ==
    IF result.kind = "raise"
    THEN /\ AppendMessage(id, Message(Sender(id), <<"Error during generation: ">> \o result.exc))
         /\ task' = [task EXCEPT ![id] = Break(f, result.exc)]
    ELSE LET reply == Content(result.val) IN
         IF fault.some
         THEN /\ AppendMessage(id, Message(Sender(id), <<"Error during generation: ">> \o fault.val))
              /\ task' = [task EXCEPT ![id] =
                    Break([f EXCEPT !.returned = result.val, !.reply = reply], fault.val)]
         ELSE /\ AppendMessage(id, Message(Sender(id), reply))
              /\ task' = [task EXCEPT ![id] =
                    [f EXCEPT !.returned = result.val, !.reply = reply,
                              !.last_response = reply, !.pc = "sleep"]]

\* the frame in which the provider has answered a request made with last_response
Called(id, r) == [task[id] EXCEPT !.prompt = task[id].last_response,
                                  !.provider = Append(@, r)]

\* one iteration with sender == "Gpt41" (lines 193-194, 202-228)
turn_Gpt41(id) ==
    /\ id \in DOMAIN task
    /\ task[id].pc = "call"
    /\ Sender(id) = "Gpt41"
    /\ \E r \in ChatNormal \cup ChatAbnormal, fault \in Faults :
        LET cost == Cost(r \in ChatAbnormal, fault) IN
        /\ events + cost <= MaxEvents
        /\ FinishTurn(id, Called(id, r), call_openai(r), fault)
        /\ events' = events + cost
    /\ UNCHANGED <<issued, responses, files, reader, lastRead>>

\* one iteration with sender == "DeepSeek" (lines 197-198, 202-228)
turn_DeepSeek(id) ==
    /\ id \in DOMAIN task
    /\ task[id].pc = "call"
    /\ Sender(id) = "DeepSeek"
    /\ \E r \in ChatNormal \cup ChatAbnormal, fault \in Faults :
        LET cost == Cost(r \in ChatAbnormal, fault) IN
        /\ events + cost <= MaxEvents
        /\ FinishTurn(id, Called(id, r), call_deepseek(r), fault)
        /\ events' = events + cost
    /\ UNCHANGED <<issued, responses, files, reader, lastRead>>

\* one iteration with sender == "Gemini" (lines 195-196, 202-228), up to
\* the end of the iteration or to the sleep before call_gemini's retry
turn_Gemini(id) ==
    /\ id \in DOMAIN task
    /\ task[id].pc = "call"
    /\ Sender(id) = "Gemini"
    /\ \E r \in StreamNormal \cup StreamAbnormal :
        LET result == call_gemini(r, task[id].retry_count) IN
        IF result.kind = "retry"
        THEN /\ Budget
             /\ task' = [task EXCEPT ![id] = [Called(id, r) EXCEPT !.pc = "retry_wait"]]
             /\ events' = events + 1
             /\ UNCHANGED conversations
        ELSE \E fault \in Faults :
                LET cost == Cost(r \in StreamAbnormal, fault) IN
                /\ events + cost <= MaxEvents
                /\ FinishTurn(id, Called(id, r), result, fault)
                /\ events' = events + cost
    /\ UNCHANGED <<issued, responses, files, reader, lastRead>>

\* lines 129-130: time.sleep(10); return call_gemini(message, retry_count + 1)
gemini_retry_sleep(id) ==
    /\ id \in DOMAIN task
    /\ task[id].pc = "retry_wait"
    /\ task' = [task EXCEPT ![id].waited = @ + GeminiRetryDelay,
                            ![id].retry_count = @ + 1,
                            ![id].pc = "call"]
    /\ UNCHANGED <<conversations, issued, responses, files, reader, lastRead, events>>

NextIteration_stall(f) ==
    IF f.turn + 1 < Len(model_cycle)
    THEN [NewCall(f) EXCEPT !.turn = @ + 1]
    ELSE [f EXCEPT !.turn = @ + 1, !.pc = "stalled"]

\* for turn, sender in enumerate(model_cycle): the next iteration, or the
\* end of the loop
NextIteration(f) ==
    IF f.turn + 1 < Len(model_cycle)
    THEN [NewCall(f) EXCEPT !.turn = @ + 1]
    ELSE [f EXCEPT !.turn = @ + 1, !.pc = "export"]

\* line 230, and the loop goes on
inter_turn_sleep(id) ==
    /\ id \in DOMAIN task
    /\ task[id].pc = "sleep"
    /\ task' = [task EXCEPT ![id] =
            NextIteration([@ EXCEPT !.slept = @ + InterTurnDelay])]
    /\ UNCHANGED <<conversations, issued, responses, files, reader, lastRead, events>>

\* ------------------------------------------------------------ export
\* the writes of lines 237-239, in order
RECURSIVE MessageWrites(_)
MessageWrites(messages) ==
    IF messages = << >> THEN << >>
    ELSE << <<Upper(Head(messages).sender), ": ">> \o Head(messages).content \o <<"\n\n">> >>
         \o MessageWrites(Tail(messages))

Writes_raw(topic, messages) ==
    << <<"Topic: ">> \o topic \o <<"\n\n">> >>
    \o [i \in 1..Len(messages) |->
            <<messages[i].sender, ": ">> \o messages[i].content \o <<"\n\n">>]

Writes(topic, messages) ==
    << <<"Topic: ">> \o topic \o <<"\n\n">> >> \o MessageWrites(messages)

RECURSIVE Concat(_)
Concat(ss) == IF ss = << >> THEN << >> ELSE Head(ss) \o Concat(Tail(ss))

export_raising(id) ==
    /\ id \in DOMAIN task
    /\ task[id].pc = "export"
    /\ LET w == Writes(conversations[id].topic, conversations[id].messages) IN
        \/ /\ files' = [files EXCEPT ![id] = Some(Concat(w))]
           /\ task' = [task EXCEPT ![id].exports = @ + 1, ![id].pc = "done"]
           /\ UNCHANGED events
        \/ /\ Budget
           /\ \/ UNCHANGED files
              \/ \E k \in 0..(Len(w) - 1) :
                    files' = [files EXCEPT ![id] = Some(Concat(SubSeq(w, 1, k)))]
           /\ task' = [task EXCEPT ![id].exports = @ + 1, ![id].export_failed = TRUE,
                                   ![id].pc = "raised"]
           /\ events' = events + 1
    /\ UNCHANGED <<conversations, issued, responses, reader, lastRead>>

\* lines 232-241: the file is written in full, or open or a write raises
export(id) ==
    /\ id \in DOMAIN task
    /\ task[id].pc = "export"
    /\ LET w == Writes(conversations[id].topic, conversations[id].messages) IN
        \/ /\ files' = [files EXCEPT ![id] = Some(Concat(w))]
           /\ task' = [task EXCEPT ![id].exports = @ + 1, ![id].pc = "done"]
           /\ UNCHANGED events
        \/ /\ Budget
           /\ \/ UNCHANGED files
              \/ \E k \in 0..(Len(w) - 1) :
                    files' = [files EXCEPT ![id] = Some(Concat(SubSeq(w, 1, k)))]
           /\ task' = [task EXCEPT ![id].exports = @ + 1, ![id].export_failed = TRUE,
                                   ![id].pc = "done"]
           /\ events' = events + 1
    /\ UNCHANGED <<conversations, issued, responses, reader, lastRead>>

\* ------------------------------------------------------------ get_convo_log
\* f"{msg['sender']}: {msg['content']}"
Line(msg) == <<msg.sender, ": ">> \o msg.content

RECURSIVE Lines(_)
Lines(messages) ==
    IF messages = << >> THEN << >> ELSE <<Line(Head(messages))>> \o Lines(Tail(messages))

\* what get_convo_log returns for a transcript it read in one piece
Formatted(messages) == Join(Lines(messages), "\n")

NotFound_unknown(convo_id) == ConversationLog(convo_id, <<"Unknown Topic">>, << >>)

\* line 291
NotFound(convo_id) == ConversationLog(convo_id, <<"Not Found">>, << >>)

\* lines 290-296: the lookup; the unknown id is answered at once
get_convo_log_begin(convo_id) ==
    /\ reader.pc = "idle"
    /\ Budget
    /\ IF convo_id \notin DOMAIN conversations
       THEN /\ lastRead' = [lastRead EXCEPT ![convo_id] = Some(NotFound(convo_id))]
            /\ UNCHANGED reader
       ELSE /\ reader' = [pc |-> "iter", convo_id |-> convo_id,
                          topic |-> conversations[convo_id].topic,
                          idx |-> 0, parts |-> << >>]
            /\ UNCHANGED lastRead
    /\ events' = events + 1
    /\ UNCHANGED <<conversations, issued, responses, task, files>>

\* lines 297-299: the generator takes the next message of the list, or the
\* list is exhausted and the joined text is returned
get_convo_log_step ==
    /\ reader.pc = "iter"
    /\ LET messages == conversations[reader.convo_id].messages IN
       IF reader.idx < Len(messages)
       THEN /\ reader' = [reader EXCEPT !.idx = @ + 1,
                                        !.parts = Append(@, Line(messages[reader.idx + 1]))]
            /\ UNCHANGED lastRead
       ELSE /\ lastRead' = [lastRead EXCEPT ![reader.convo_id] =
                    Some([convo_id |-> reader.convo_id, topic |-> reader.topic,
                          formatted |-> Join(reader.parts, "\n")])]
            /\ reader' = Idle
    /\ UNCHANGED <<conversations, issued, responses, task, files, events>>

\* ------------------------------------------------------------ specification
Next ==
    \/ start_conversation(RequestTopics[(Cardinality(issued) % Len(RequestTopics)) + 1])
    \/ \E id \in Ids : ai_conversation_begin(id)
    \/ \E id \in Ids : turn_Gpt41(id)
    \/ \E id \in Ids : turn_Gemini(id)
    \/ \E id \in Ids : gemini_retry_sleep(id)
    \/ \E id \in Ids : turn_DeepSeek(id)
    \/ \E id \in Ids : inter_turn_sleep(id)
    \/ \E id \in Ids : export(id)
    \/ \E id \in Ids : get_convo_log_begin(id)
    \/ get_convo_log_step

Spec == Init /\ [][Next]_vars

\* the steps of the background task of session id
TaskStep(id) ==
    \/ ai_conversation_begin(id)
    \/ turn_Gpt41(id)
    \/ turn_Gemini(id)
    \/ gemini_retry_sleep(id)
    \/ turn_DeepSeek(id)
    \/ inter_turn_sleep(id)
    \/ export(id)

\* Next with at most MaxLiveEvents environment events in a behaviour
LiveNext == Next /\ events' <= MaxLiveEvents

\* every background task and every request in progress keeps running
FairSpec ==
    /\ Init /\ [][LiveNext]_vars
    /\ \A id \in Ids : WF_vars(TaskStep(id))
    /\ WF_vars(get_convo_log_step)

\* ------------------------------------------------------------ properties
\* MAX_TURNS = 9
MAX_TURNS == 9

Sessions == DOMAIN conversations
Transcript(id) == conversations[id].messages
Finished(id) == task[id].pc = "done"
Faulted(id) == task[id].fault.some

\* Every id of the store is a session start_conversation made, with a task
TypeOK ==
    /\ Sessions = issued
    /\ DOMAIN task = issued
    /\ DOMAIN responses = issued
    /\ events \in 0..MaxEvents

\* C1: a transcript never has more than 9 turns, and when the session's
\* ai_conversation run has finished it has exactly 9 turns unless the loop's
\* except branch caught an exception
C1_TranscriptLength ==
    \A id \in Sessions :
        /\ Len(Transcript(id)) <= MAX_TURNS
        /\ Finished(id) /\ ~Faulted(id) => Len(Transcript(id)) = MAX_TURNS

C1_Witness ==
    \E id \in Sessions :
        Finished(id) /\ ~Faulted(id) /\ Len(Transcript(id)) = MAX_TURNS

\* C2: the sender of the i-th turn of every transcript is the i-th element
\* of Gpt41, Gemini, DeepSeek repeated, the turn that records a caught
\* exception included
C2_SenderCycle ==
    \A id \in Sessions :
        \A i \in 1..Len(Transcript(id)) :
            Transcript(id)[i].sender =
                (CASE (i - 1) % 3 = 0 -> "Gpt41"
                   [] (i - 1) % 3 = 1 -> "Gemini"
                   [] (i - 1) % 3 = 2 -> "DeepSeek")

C2_Witness ==
    \E id \in Sessions :
        /\ Finished(id) /\ Faulted(id)
        /\ Len(Transcript(id)) = 5
        /\ Transcript(id)[5].sender = "Gemini"
        /\ Transcript(id)[5].content = <<"Error during generation: ">> \o task[id].fault.val

\* a result of get_convo_log for a session of the store
IsLog(r) == r.some /\ "formatted" \in DOMAIN r.val

\* the step is a return of get_convo_log for session id
ReadReturns(id) == reader.pc = "iter" /\ reader.convo_id = id /\ reader' = Idle

\* C3: get_convo_log can start and go on whatever the session's task is
\* doing, the text it returns is the rendering of the transcript as it is
\* at the return, every returned text stays a prefix of the rendering of the
\* transcript in all later states (so of the final one), and a read's text
\* is a prefix of the next read's text
C3_ReadsSeePrefixes ==
    /\ [](\A id \in Ids :
            /\ reader.pc = "idle" /\ Budget => ENABLED get_convo_log_begin(id)
            /\ reader.pc = "iter" => ENABLED get_convo_log_step
            /\ id \in Sessions /\ IsLog(lastRead[id]) =>
                IsPrefix(lastRead[id].val.formatted, Formatted(Transcript(id))))
    /\ [][\A id \in Sessions :
            ReadReturns(id) =>
                /\ IsLog(lastRead'[id])
                /\ lastRead'[id].val.formatted = Formatted(Transcript(id))
                /\ Transcript(id)' = Transcript(id)
                /\ IsLog(lastRead[id]) =>
                    IsPrefix(lastRead[id].val.formatted, lastRead'[id].val.formatted)]_vars

\* a second read is about to return more than the first one did, while the
\* task is inside an adapter call
C3_Witness ==
    \E id \in Sessions :
        /\ IsLog(lastRead[id])
        /\ lastRead[id].val.formatted # << >>
        /\ lastRead[id].val.formatted # Formatted(Transcript(id))
        /\ reader.pc = "iter" /\ reader.convo_id = id
        /\ reader.idx = Len(Transcript(id))
        /\ task[id].pc = "call"

\* the adapter call of the last turn of the transcript: valid while the
\* task is past that turn's append and not yet in the next call
AfterTurn(id) ==
    \/ task[id].pc = "sleep"
    \/ task[id].pc \in {"export", "done"} /\ Faulted(id)

\* C4: no turn has empty content; when the adapter returned the empty text
\* the turn's content is the placeholder, and the placeholder is the next
\* prompt
C4_NoEmptyTurn ==
    \A id \in Sessions :
        /\ \A i \in 1..Len(Transcript(id)) : Transcript(id)[i].content # << >>
        /\ task[id].pc = "sleep" /\ task[id].returned = << >> =>
            /\ Transcript(id)[Len(Transcript(id))].content = <<"(No response)">>
            /\ task[id].last_response = <<"(No response)">>
        /\ task[id].pc = "sleep" /\ task[id].turn >= 1
                /\ Transcript(id)[task[id].turn].content = <<"(No response)">> =>
            task[id].prompt = <<"(No response)">>

C4_Witness ==
    \E id \in Sessions :
        /\ task[id].pc = "sleep" /\ task[id].turn >= 1
        /\ Transcript(id)[task[id].turn].content = <<"(No response)">>
        /\ task[id].prompt = <<"(No response)">>

\* the provider failed with the rate-limit signature
RateLimited(r) == r.kind = "err" /\ \E i \in 1..Len(r.msg) : r.msg[i] = "429"

\* C5: when the first provider attempt of a call_gemini failed with the
\* rate-limit signature, the call has made exactly two attempts when it
\* returns, after one wait; when the second attempt succeeded the call
\* returned its text, which is the content of the turn (the placeholder
\* when that text is empty)
C5_GeminiRetriesOnce ==
    \A id \in Sessions :
        AfterTurn(id) /\ Transcript(id)[Len(Transcript(id))].sender = "Gemini"
            /\ RateLimited(task[id].provider[1]) =>
                /\ Len(task[id].provider) = 2
                /\ task[id].retry_count = 1
                /\ task[id].provider[2].kind = "ok" =>
                    LET text == Strip(Accumulate(task[id].provider[2].chunks)) IN
                    /\ task[id].returned = text
                    /\ ~Faulted(id) =>
                        Transcript(id)[Len(Transcript(id))].content =
                            (IF text = << >> THEN <<"(No response)">> ELSE text)

C5_Witness ==
    \E id \in Sessions :
        /\ task[id].pc = "sleep"
        /\ Transcript(id)[Len(Transcript(id))].sender = "Gemini"
        /\ RateLimited(task[id].provider[1])
        /\ Len(task[id].provider) = 2
        /\ task[id].provider[2].kind = "ok"
        /\ Transcript(id)[Len(Transcript(id))].content = <<"a">>

\* the provider did not answer with a text
Failed(r) == r.kind # "ok"

IsErrorText(t) == Len(t) > 3 /\ t[1] = "Error generating " /\ t[3] = " response: "

\* every adapter ends by returning (call_gemini: or by its retry), whatever
\* the provider did
AdaptersReturn ==
    /\ \A r \in ChatNormal \cup ChatAbnormal :
        call_openai(r).kind = "return" /\ call_deepseek(r).kind = "return"
    /\ \A r \in StreamNormal \cup StreamAbnormal, n \in 0..1 :
        call_gemini(r, n).kind \in {"return", "retry"}

\* C6: whatever the provider does, each adapter returns and does not raise;
\* after a provider failure the adapter has returned a non-empty error text,
\* which is the content of the turn, no exception the loop catches comes
\* from an adapter, and a run the loop caught no exception in ends with 9
\* turns
C6_AdaptersAbsorbFailures ==
    /\ AdaptersReturn
    /\ \A id \in Sessions :
        /\ Faulted(id) =>
            task[id].fault.val \in {<<"'ascii' codec can't encode character">>}
        /\ AfterTurn(id) /\ Failed(task[id].provider[Len(task[id].provider)]) =>
            /\ IsErrorText(task[id].returned)
            /\ ~Faulted(id) =>
                Transcript(id)[Len(Transcript(id))].content = task[id].returned
        /\ Finished(id) /\ ~Faulted(id) => Len(Transcript(id)) = MAX_TURNS

C6_Witness ==
    \E id \in Sessions :
        /\ Finished(id) /\ ~Faulted(id)
        /\ Len(Transcript(id)) = MAX_TURNS
        /\ Transcript(id)[1].content =
                <<"Error generating ", "OpenAI", " response: ", "timeout">>
        /\ Transcript(id)[2].content =
                <<"Error generating ", "Gemini", " response: ", "timeout">>

\* the text of <id>.txt: the topic line, then one line per turn with the
\* sender in upper case, each followed by an empty line
RECURSIVE TurnsText(_)
TurnsText(messages) ==
    IF messages = << >> THEN << >>
    ELSE << (CASE Head(messages).sender = "Gpt41" -> "GPT41"
               [] Head(messages).sender = "Gemini" -> "GEMINI"
               [] Head(messages).sender = "DeepSeek" -> "DEEPSEEK"), ": " >>
         \o Head(messages).content \o <<"\n\n">> \o TurnsText(Tail(messages))

ExportText(id) ==
    <<"Topic: ">> \o conversations[id].topic \o <<"\n\n">> \o TurnsText(Transcript(id))

\* C7 as claimed: a finished run has written the file exactly once, with
\* the topic and the complete transcript, and no run writes it earlier
C7_ExportWrittenOnceComplete ==
    \A id \in Sessions :
        /\ Finished(id) => task[id].exports = 1 /\ files[id] = Some(ExportText(id))
        /\ ~Finished(id) => task[id].exports = 0 /\ files[id] = None

\* C7 as amended: a finished run has run the export exactly once, after its
\* last append; when its write did not fail the file holds the topic and the
\* complete transcript, when it failed there is no file or the file holds a
\* proper prefix of that text; no run exports earlier
C7_ExportAttemptedOnce ==
    \A id \in Sessions :
        /\ Finished(id) =>
            /\ task[id].exports = 1
            /\ ~task[id].export_failed => files[id] = Some(ExportText(id))
            /\ task[id].export_failed =>
                \/ files[id] = None
                \/ /\ files[id].some
                   /\ IsPrefix(files[id].val, ExportText(id))
                   /\ files[id].val # ExportText(id)
            /\ Faulted(id) \/ Len(Transcript(id)) = MAX_TURNS
        /\ ~Finished(id) => task[id].exports = 0 /\ files[id] = None

C7_Witness ==
    \E id \in Sessions :
        /\ Finished(id) /\ Faulted(id)
        /\ Len(Transcript(id)) = 2
        /\ files[id] = Some(ExportText(id))

\* C8: a get_convo_log of an id that is not in the store returns the
\* placeholder with topic "Not Found" and no messages, and changes neither
\* the store nor any task
C8_UnknownIdRead ==
    [][\A id \in Ids :
        reader.pc = "idle" /\ id \notin Sessions /\ lastRead'[id] # lastRead[id] =>
            /\ lastRead'[id] =
                Some([convo_id |-> id, topic |-> <<"Not Found">>, messages |-> << >>])
            /\ conversations' = conversations
            /\ task' = task
            /\ reader' = reader]_vars

C8_Witness ==
    \E id \in Ids :
        /\ id \notin Sessions
        /\ Sessions # {}
        /\ lastRead[id] = Some([convo_id |-> id, topic |-> <<"Not Found">>, messages |-> << >>])

\* C9: with the tasks and the requests kept running, every session's run
\* finishes; start_conversation returned no turns for it; once the run has
\* finished the transcript does not change any more and, unless the loop
\* caught an exception, it has 9 turns and a read of the id returns all of
\* them
C9_RunsFinish ==
    /\ \A id \in Ids : (id \in Sessions) ~> (id \in Sessions /\ Finished(id))
    /\ [](\A id \in Sessions :
            /\ responses[id].messages = << >>
            /\ Finished(id) /\ ~Faulted(id) => Len(Transcript(id)) = MAX_TURNS)
    /\ [][\A id \in Sessions :
            Finished(id) =>
                /\ Finished(id)'
                /\ Transcript(id)' = Transcript(id)
                /\ ReadReturns(id) =>
                    lastRead'[id].val.formatted = Formatted(Transcript(id))]_vars

C9_Witness ==
    \E id \in Sessions :
        /\ Finished(id) /\ ~Faulted(id)
        /\ Len(Transcript(id)) = MAX_TURNS
        /\ IsLog(lastRead[id])
        /\ lastRead[id].val.formatted = Formatted(Transcript(id))

\* C10: start_conversation takes an id that is not in the store, puts a
\* session with the request's topic and an empty transcript under it,
\* returns that id, topic and empty transcript, and leaves every session
\* that was in the store as it was
C10_CreateIsFresh ==
    [][responses' # responses =>
        \E id \in Ids :
            LET topic == IF Sessions = {} THEN <<"X">> ELSE <<"Y">> IN
            /\ id \notin Sessions
            /\ DOMAIN conversations' = Sessions \cup {id}
            /\ conversations'[id] = [topic |-> topic, messages |-> << >>]
            /\ responses'[id] = [convo_id |-> id, topic |-> topic, messages |-> << >>]
            /\ \A j \in Sessions : conversations'[j] = conversations[j]]_vars

C10_Witness ==
    \E id, other \in Sessions :
        /\ conversations[id].topic = <<"X">>
        /\ Len(Transcript(id)) >= 2
        /\ conversations[other] = [topic |-> <<"Y">>, messages |-> << >>]
        /\ task[other].pc = "queued"

\* C11: every id start_conversation has returned is in the store in every
\* later state with the topic of its request; a get_convo_log of it returns
\* a log with that topic, never the "Not Found" placeholder; and its
\* ai_conversation task finds it in the store (the return of line 181 is
\* not taken)
C11_SessionPersists ==
    /\ [](\A id \in issued :
            /\ id \in DOMAIN responses /\ responses[id].convo_id = id
            /\ id \in Sessions
            /\ conversations[id].topic = responses[id].topic
            /\ reader.pc = "iter" /\ reader.convo_id = id =>
                reader.topic = responses[id].topic
            /\ id \in DOMAIN task
            /\ task[id].pc = "done" => task[id].exports = 1)
    /\ [][\A id \in issued :
            /\ id \in DOMAIN conversations'
            /\ conversations'[id].topic = conversations[id].topic
            /\ responses'[id] = responses[id]
            /\ lastRead'[id] # lastRead[id] =>
                /\ "formatted" \in DOMAIN lastRead'[id].val
                /\ lastRead'[id].val.topic = responses[id].topic
                /\ lastRead'[id].val.topic # <<"Not Found">>
            /\ task[id].pc = "queued" /\ task'[id].pc # "queued" =>
                task'[id].pc = "call"]_vars

\* the first session has finished and a read of it has returned its topic
\* and its turns, with a second session in the store
C11_Witness ==
    \E id, other \in issued :
        /\ id # other
        /\ responses[id].topic = <<"X">> /\ responses[other].topic = <<"Y">>
        /\ task[id].pc = "done" /\ task[other].pc = "sleep"
        /\ lastRead[id].some /\ "formatted" \in DOMAIN lastRead[id].val
        /\ lastRead[id].val.topic = <<"X">>
        /\ lastRead[id].val.formatted = Formatted(Transcript(id))

\* the prompt of the adapter call of 0-based turn k of session id, as the
\* transcript gives it
PromptOf(id, k) ==
    IF k = 0 THEN <<"Let's discuss: ">> \o conversations[id].topic
    ELSE Transcript(id)[k].content

\* C12: the argument of the adapter call of turn 0 is "Let's discuss: "
\* followed by the topic, and the argument of the adapter call of every
\* later turn is the content of the turn before it in the transcript, error
\* texts and the placeholder included; this holds of the call about to be
\* made, of each attempt made, and of the call of the turn last appended
C12_PromptChain ==
    \A id \in Sessions :
        /\ task[id].pc \in {"call", "retry_wait"} =>
            /\ Len(Transcript(id)) = task[id].turn
            /\ task[id].last_response = PromptOf(id, task[id].turn)
            /\ task[id].provider # << >> => task[id].prompt = PromptOf(id, task[id].turn)
        /\ task[id].pc = "sleep" \/ Faulted(id) =>
            /\ Len(Transcript(id)) = task[id].turn + 1
            /\ task[id].prompt = PromptOf(id, task[id].turn)

\* the prompt of turn 2 was the error text that is turn 1, whose prompt was
\* the placeholder that is turn 0
C12_Witness ==
    \E id \in Sessions :
        /\ task[id].pc = "sleep" /\ task[id].turn = 2
        /\ Transcript(id)[1].content = <<"(No response)">>
        /\ Transcript(id)[2].content =
                <<"Error generating ", "Gemini", " response: ", "timeout">>
        /\ task[id].prompt = Transcript(id)[2].content

\* the adapter call of the turn last appended has ended
CallEnded(id) == task[id].pc = "sleep" \/ Faulted(id)

\* C13: a call of the OpenAI or the DeepSeek adapter makes one provider
\* attempt and waits for nothing, whatever the attempt did; a call of the
\* Gemini adapter makes a second attempt, after one wait of 10, exactly when
\* the first failed with the rate-limit signature, and never a third: when
\* the second attempt fails, rate-limited or not, the call returns the error
\* text of that failure
C13_BoundedRetry ==
    \A id \in Sessions :
        /\ Len(task[id].provider) <= 2
        /\ task[id].retry_count = task[id].waited \div 10
        /\ task[id].waited \in {0, 10}
        /\ task[id].pc = "retry_wait" =>
            /\ Transcript(id) # << >> /\ Len(Transcript(id)) % 3 = 1
            /\ Len(task[id].provider) = 1 /\ task[id].waited = 0
            /\ RateLimited(task[id].provider[1])
        /\ task[id].pc = "call" =>
            Len(task[id].provider) = task[id].waited \div 10
        /\ CallEnded(id) =>
            LET sender == Transcript(id)[Len(Transcript(id))].sender
                tries == task[id].provider
            IN  /\ sender \in {"Gpt41", "DeepSeek"} =>
                    Len(tries) = 1 /\ task[id].waited = 0
                /\ sender = "Gemini" =>
                    /\ Len(tries) = (IF RateLimited(tries[1]) THEN 2 ELSE 1)
                    /\ task[id].waited = (IF RateLimited(tries[1]) THEN 10 ELSE 0)
                    /\ tries[Len(tries)].kind = "err" =>
                        task[id].returned =
                            <<"Error generating ", "Gemini", " response: ">>
                                \o tries[Len(tries)].msg

\* a Gemini call whose two attempts were both rate-limited has returned the
\* error text of the second after one wait
C13_Witness ==
    \E id \in Sessions :
        /\ task[id].pc = "sleep" /\ task[id].turn = 1
        /\ Len(task[id].provider) = 2
        /\ RateLimited(task[id].provider[1]) /\ RateLimited(task[id].provider[2])
        /\ task[id].waited = 10
        /\ Transcript(id)[2].content =
                <<"Error generating ", "Gemini", " response: ", "429", " quota">>

\* C14: when the except branch of the loop has caught an exception in
\* 0-based turn k, the transcript has k + 1 turns, the last of them being
\* turn k's sender with "Error during generation: " and the exception's
\* text; the run is past the loop, where it makes no adapter call and no
\* append; and a run that has ended with fewer than 9 turns is one whose
\* loop caught an exception
C14_FaultEndsRun ==
    \A id \in Sessions :
        /\ Faulted(id) =>
            /\ task[id].pc \in {"export", "done"}
            /\ Len(Transcript(id)) = task[id].turn + 1
            /\ Transcript(id)[task[id].turn + 1] =
                [sender |-> <<"Gpt41", "Gemini", "DeepSeek">>[(task[id].turn % 3) + 1],
                 content |-> <<"Error during generation: ">> \o task[id].fault.val]
            /\ \A i \in 1..task[id].turn :
                Transcript(id)[i].content[1] # "Error during generation: "
        /\ task[id].pc \in {"export", "done"} /\ Len(Transcript(id)) < 9 => Faulted(id)
        /\ task[id].pc \in {"export", "done"} /\ ~Faulted(id) =>
            Len(Transcript(id)) = 9 /\ task[id].turn = 9

\* the exception was caught in turn 2: the run has ended with 3 turns
C14_Witness ==
    \E id \in Sessions :
        /\ Finished(id) /\ Faulted(id)
        /\ task[id].turn = 2
        /\ Len(Transcript(id)) = 3
        /\ Transcript(id)[3].sender = "DeepSeek"
        /\ Transcript(id)[3].content[1] = "Error during generation: "
        /\ Transcript(id)[2].content[1] # "Error during generation: "

\* C15: every step leaves a session's transcript as it is or adds one turn
\* at its end, all turns already there staying where and what they were;
\* the turn an iteration produced is in the transcript before the next
\* iteration starts: the transcript holds as many turns as there are ended
\* iterations, while the run is going on
C15_AppendOnly ==
    /\ [](\A id \in Sessions :
            /\ task[id].pc = "queued" => Transcript(id) = << >>
            /\ task[id].pc \in {"call", "retry_wait"} =>
                Len(Transcript(id)) = task[id].turn
            /\ task[id].pc = "sleep" => Len(Transcript(id)) = task[id].turn + 1)
    /\ [][\A id \in Sessions :
            \/ Transcript(id)' = Transcript(id)
            \/ /\ Len(Transcript(id)') = Len(Transcript(id)) + 1
               /\ \A i \in 1..Len(Transcript(id)) : Transcript(id)'[i] = Transcript(id)[i]
               /\ task[id].pc = "call" /\ task'[id].pc \in {"sleep", "export"}
               /\ task'[id].turn = task[id].turn]_vars

\* a read returned the first three turns while the run was going on, and
\* the run is now in its fifth iteration with four turns in the transcript
C15_Witness ==
    \E id \in Sessions :
        /\ task[id].pc = "call" /\ task[id].turn = 4
        /\ Len(Transcript(id)) = 4
        /\ lastRead[id].some /\ "formatted" \in DOMAIN lastRead[id].val
        /\ lastRead[id].val.formatted = Formatted(SubSeq(Transcript(id), 1, 3))

\* C16 as claimed: whenever the run is not in the delay itself, it has slept
\* 8 for every turn of the transcript, so also before the export
C16_DelayAfterEveryTurn ==
    \A id \in Sessions :
        /\ task[id].pc # "sleep" => task[id].slept = 8 * Len(Transcript(id))
        /\ task[id].pc = "sleep" => task[id].slept = 8 * (Len(Transcript(id)) - 1)

\* the turns of the transcript that line 222 appended
Committed(id) == Len(Transcript(id)) - (IF Faulted(id) THEN 1 ELSE 0)

\* C16 as amended: the run sleeps 8 after every turn appended by line 222,
\* the ninth included, before the next iteration or the export; after the
\* turn the except branch appended it does not sleep and goes to the export
C16_DelayAfterCommittedTurn ==
    \A id \in Sessions :
        /\ task[id].pc # "sleep" => task[id].slept = 8 * Committed(id)
        /\ task[id].pc = "sleep" =>
            ~Faulted(id) /\ task[id].slept = 8 * (Len(Transcript(id)) - 1)
        /\ task[id].pc \in {"export", "done"} /\ ~Faulted(id) => task[id].slept = 72
        /\ task[id].pc \in {"export", "done"} /\ Faulted(id) =>
            task[id].slept = 8 * (Len(Transcript(id)) - 1)

\* a run that caught an exception in its fourth turn is at the export
\* having slept three times
C16_Witness ==
    \E id \in Sessions :
        /\ task[id].pc = "export" /\ Faulted(id)
        /\ Len(Transcript(id)) = 4
        /\ task[id].slept = 24

\* C17: the step in which the export fails leaves the store, so the
\* session's topic and transcript, as it was and ends the run as finished,
\* as the step of a successful export does; the transcript and topic of a
\* session whose export failed do not change afterwards, and a read of it
\* that returns afterwards returns the topic and the whole transcript
C17_ExportFailureSwallowed ==
    /\ [](\A id \in Sessions : task[id].export_failed => task[id].pc = "done")
    /\ [][\A id \in Sessions :
            /\ task[id].pc = "export" /\ task'[id] # task[id] =>
                /\ conversations' = conversations
                /\ task'[id].pc = "done"
                /\ task'[id].fault = task[id].fault
                /\ lastRead' = lastRead /\ reader' = reader
            /\ task[id].export_failed =>
                /\ conversations'[id] = conversations[id]
                /\ task'[id] = task[id]
                /\ reader.pc = "iter" /\ reader.convo_id = id /\ reader'.pc = "idle" =>
                    /\ lastRead'[id].val.topic = conversations[id].topic
                    /\ lastRead'[id].val.formatted = Formatted(Transcript(id))]_vars

\* the export of a full run failed after some of its writes, and a read
\* has returned the nine turns
C17_Witness ==
    \E id \in Sessions :
        /\ task[id].pc = "done" /\ task[id].export_failed
        /\ files[id].some /\ files[id].val # << >>
        /\ Len(Transcript(id)) = 9
        /\ lastRead[id].some /\ "formatted" \in DOMAIN lastRead[id].val
        /\ lastRead[id].val.formatted = Formatted(Transcript(id))

\* the turn that the iteration of frame f appends when it runs with nothing
\* else running: f's sender with the text the adapter made of the provider's
\* last answer, or with the text of the exception the loop caught
SoloTurn(f) ==
    LET sender == <<"Gpt41", "Gemini", "DeepSeek">>[(f.turn % 3) + 1]
        r == f.provider[Len(f.provider)]
        made ==
            IF r.kind = "ok"
            THEN Strip(IF sender = "Gemini" THEN Accumulate(r.chunks) ELSE r.text)
            ELSE <<"Error generating ",
                   (CASE sender = "Gpt41" -> "OpenAI"
                      [] sender = "Gemini" -> "Gemini"
                      [] sender = "DeepSeek" -> "DeepSeek"),
                   " response: ">>
                 \o (IF r.kind = "none"
                     THEN <<"'NoneType' object has no attribute 'strip'">>
                     ELSE r.msg)
    IN  [sender |-> sender,
         content |-> IF f.fault.some THEN <<"Error during generation: ">> \o f.fault.val
                     ELSE IF made = << >> THEN <<"(No response)">>
                     ELSE made]

\* C18: a step of one session's task changes no other session's topic,
\* transcript or task; it appends to its own transcript only, the turn of
\* its own turn index, which is the turn it appends when it runs alone with
\* the same provider outcomes; so in every interleaving each transcript has
\* its turns in index order
C18_SessionsIndependent ==
    /\ [](\A id \in Sessions :
            Len(Transcript(id)) \in {task[id].turn, task[id].turn + 1}
            /\ \A i \in 1..Len(Transcript(id)) :
                Transcript(id)[i].sender = <<"Gpt41", "Gemini", "DeepSeek">>[((i - 1) % 3) + 1])
    /\ [][\A id \in Sessions :
            task'[id] # task[id] =>
                /\ \A other \in Sessions \ {id} :
                    /\ conversations'[other] = conversations[other]
                    /\ task'[other] = task[other]
                    /\ files'[other] = files[other]
                /\ conversations'[id].topic = conversations[id].topic
                /\ \/ Transcript(id)' = Transcript(id)
                   \/ /\ Len(Transcript(id)) = task[id].turn
                      /\ Transcript(id)' = Append(Transcript(id), SoloTurn(task'[id]))]_vars

\* two runs are going on, each with its own turns: the first has three, the
\* second of which is an error text, and the second has two
C18_Witness ==
    \E id, other \in Sessions :
        /\ id # other
        /\ task[id].pc = "call" /\ task[other].pc = "sleep"
        /\ Len(Transcript(id)) = 3 /\ Len(Transcript(other)) = 2
        /\ Transcript(id)[2].content =
                <<"Error generating ", "Gemini", " response: ", "timeout">>
        /\ Transcript(other)[2].content = <<"a">>

=============================================================================
